---- MODULE Spec2Model ----
(***************************************************************************)
(* State-machine model of the virtual controller bridge                    *)
(* (addons/frc_interface/src/virtual_controller.rs).                       *)
(*                                                                         *)
(* Two kinds of flow exist: the caller (the owner of the VirtualController,*)
(* which calls initialize / shutdown / set_button one after the other) and *)
(* the control threads spawned by initialize.  Every initialize call that  *)
(* gets past Client::connect creates one XTarget ("session"); session k is *)
(* captured by control thread k when the call succeeds.                    *)
(*                                                                         *)
(* The node that owns the controller (addons/frc_interface/src/lib.rs) is  *)
(* modelled by its connected / force_connected flags and its handlers.     *)
(*                                                                         *)
(* Specifications: Spec (the calls of the owner and the control threads),  *)
(* FairSpec (Spec with the threads scheduled), DropSpec (Spec and the drop *)
(* of the facade), TranslateSpec (the first ticks on every store),         *)
(* CoalesceSpec (Spec with the press log kept), LockSpec (Spec lock by     *)
(* lock) and IfaceSpec (the node and its handlers).                        *)
(***************************************************************************)
EXTENDS Naturals, Sequences, FiniteSets

(***************************************************************************)
(* Bounds of the model.                                                    *)
(***************************************************************************)
\* number of initialize calls that get past Client::connect
MaxInit == 2
\* number of logical names (first entries of DriveOrder) the caller drives
MaxNames == 1
\* snapshots / frames counted per press in the press log (then "that many or
\* more")
MaxLog == 2

(***************************************************************************)
(* ButtonState and the names set_button knows.                             *)
(***************************************************************************)
ButtonNames ==
    {"climb", "zero", "intake", "high", "mid", "low",
     "coral", "intake_alga", "drop_alga"}

\* #[derive(Default)] struct ButtonState: every field false
ButtonStateDefault == [n \in ButtonNames |-> FALSE]

\* the names the caller passes to set_button: the first MaxNames known names
\* of this order, and one name that is not a logical button
DriveOrder ==
    <<"climb", "coral", "intake_alga", "zero", "intake", "high", "mid",
      "low", "drop_alga">>
DrivenNames == {DriveOrder[i] : i \in 1..MaxNames}
UnknownNames == {"turbo"}
None == 0
Sessions == 1..MaxInit
\* the flow that calls the methods of the VirtualController, as a lock holder
Caller == MaxInit + 1

(***************************************************************************)
(* vigem_client::XButtons bits used by the control thread.                 *)
(***************************************************************************)
XButtons_UP == 1
XButtons_DOWN == 2
XButtons_LEFT == 4
XButtons_RIGHT == 8
XButtons_START == 16
XButtons_BACK == 32
XButtons_LB == 256
XButtons_RB == 512
XButtons_B == 8192

\* the u16 operator |
RECURSIVE BitOr(_, _)
BitOr(a, b) ==
    IF a = 0 THEN b
    ELSE IF b = 0 THEN a
    ELSE (IF a % 2 = 1 \/ b % 2 = 1 THEN 1 ELSE 0)
         + 2 * BitOr(a \div 2, b \div 2)

\* one `if current_state.f { button_value |= bit }` statement
OrIf(acc, pressed, bit) == IF pressed THEN BitOr(acc, bit) ELSE acc

\* mutant: the coral arm ORs in the LB bit, which intake_alga also uses
button_value_shared(s) ==
    LET v1 == OrIf(0, s.climb, XButtons_START)
        v2 == OrIf(v1, s.zero, XButtons_BACK)
        v3 == OrIf(v2, s.intake, XButtons_RIGHT)
        v4 == OrIf(v3, s.high, XButtons_UP)
        v5 == OrIf(v4, s.mid, XButtons_LEFT)
        v6 == OrIf(v5, s.low, XButtons_DOWN)
        v7 == OrIf(v6, s.coral, XButtons_LB)
        v8 == OrIf(v7, s.intake_alga, XButtons_LB)
    IN  OrIf(v8, s.drop_alga, XButtons_RB)

\* the accumulator after the nine if-statements
button_value(s) ==
    LET v1 == OrIf(0, s.climb, XButtons_START)
        v2 == OrIf(v1, s.zero, XButtons_BACK)
        v3 == OrIf(v2, s.intake, XButtons_RIGHT)
        v4 == OrIf(v3, s.high, XButtons_UP)
        v5 == OrIf(v4, s.mid, XButtons_LEFT)
        v6 == OrIf(v5, s.low, XButtons_DOWN)
        v7 == OrIf(v6, s.coral, XButtons_B)
        v8 == OrIf(v7, s.intake_alga, XButtons_LB)
    IN  OrIf(v8, s.drop_alga, XButtons_RB)

\* XGamepad { buttons, ..Default::default() }
XGamepad(buttons) ==
    [buttons |-> buttons, left_trigger |-> 0, right_trigger |-> 0,
     thumb_lx |-> 0, thumb_ly |-> 0, thumb_rx |-> 0, thumb_ry |-> 0]

\* the device has received no frame yet
NoFrame == [buttons |-> "none"]

\* mutant: the comparison of the climb fields is missing
StateChanged_skip(cur, last) ==
    \E n \in ButtonNames \ {"climb"} : cur[n] # last[n]

\* the nine-way `!=` disjunction of the control thread
StateChanged(cur, last) == \E n \in ButtonNames : cur[n] # last[n]

(***************************************************************************)
(* State.                                                                  *)
(***************************************************************************)
VARIABLES
    running,         \* Arc<AtomicBool>, shared with every control thread
    target,          \* self.target: None or the session the facade holds
    client,          \* self.client
    control_thread,  \* self.control_thread: None or the thread of the handle
    button_state,    \* Arc<Mutex<ButtonState>>
    threads,         \* control threads: position and locals
    dev,             \* the XTargets: lifecycle state and the last frame
                     \* handed to update
    callerPc,        \* "idle", or "join": the caller is blocked in shutdown
    handle,          \* shutdown's local `handle`
    nInit,           \* sessions created so far
    lastSet,         \* history: value of the last set_button per known name
    lastCall,        \* history: the last call of the caller: "shutdown",
                     \* "set_button_unknown" (a set_button with a name
                     \* that is no logical button) or "other"
    lastPush,        \* history: "Ok" / "Err", what the most recent
                     \* update call returned ("none" before the first)
    everActive,      \* history: some initialize call has returned true
    shutdownTrace,   \* history: events of the last shutdown that found the
                     \* flag set, with the ticks and pushes of the joined
                     \* thread while the caller waits in join; emptied by
                     \* the next initialize that returns true
    pressLog,        \* history, kept only in CoalesceSpec: the snapshots
                     \* taken while a press of climb was held and the
                     \* frames with the climb bit pushed since that press
    storeLock,       \* the Mutex of button_state: None or its holder,
                     \* Caller or a control thread (followed in LockSpec)
    devLock,         \* the Mutex of each XTarget: held by its thread or not
    call,            \* the arguments of the set_button call in progress
    connected,       \* FRCInterfaceBase.connected
    force_connected, \* FRCInterfaceBase.force_connected
    virtual_controller, \* FRCInterfaceBase.virtual_controller is Some
    ifacePc,         \* "new": FRCInterfaceBase::init has run; "in_tree":
                     \* ready has run
    uiDown,          \* the UI buttons held down
    forwarded,       \* history: the press of the button was passed on to
                     \* set_button
    lastProbe        \* history: what the last TCP connect of
                     \* ping_tcp_server returned ("none" before the first)

vars ==
    <<running, target, client, control_thread, button_state, threads, dev,
      callerPc, handle, nInit, lastSet, lastCall, lastPush, everActive,
      shutdownTrace, pressLog, storeLock, devLock, call, connected,
      force_connected, virtual_controller, ifacePc, uiDown, forwarded,
      lastProbe>>

facadeVars == <<running, target, client, control_thread, button_state>>
lockVars == <<storeLock, devLock, call>>
ifaceVars ==
    <<connected, force_connected, virtual_controller, ifacePc, uiDown,
      forwarded, lastProbe>>
otherVars == <<lockVars, ifaceVars>>
historyVars ==
    <<lastSet, lastCall, lastPush, everActive, shutdownTrace>>

\* a control thread that was never spawned
ThreadNone ==
    [pc |-> "none", last_state |-> ButtonStateDefault,
     current_state |-> ButtonStateDefault, saw_stop |-> FALSE, tick |-> <<>>]

\* the closure at thread::spawn: last_state = ButtonState::default()
ThreadSpawned == [ThreadNone EXCEPT !.pc = "check"]

\* a control thread that has returned: its locals are gone
ThreadDone == [ThreadNone EXCEPT !.pc = "done", !.saw_stop = TRUE]

Alive(t) == threads[t].pc \notin {"none", "done"}

\* the press log: not kept ("off"); kept, no press of climb being followed
\* ("idle"); a press of climb "held" or "released" again, with the counts
LogOff == [mode |-> "off", snaps |-> 0, frames |-> 0]
LogIdle == [mode |-> "idle", snaps |-> 0, frames |-> 0]
LogHeld == [mode |-> "held", snaps |-> 0, frames |-> 0]

NoCall == [button |-> "", pressed |-> FALSE]

\* no lock is held; FRCInterfaceBase::init: not connected, not forced, no
\* controller
InitOther ==
    /\ storeLock = None
    /\ devLock = [s \in Sessions |-> FALSE]
    /\ call = NoCall
    /\ connected = FALSE
    /\ force_connected = FALSE
    /\ virtual_controller = FALSE
    /\ ifacePc = "new"
    /\ uiDown = [n \in DrivenNames |-> FALSE]
    /\ forwarded = [n \in DrivenNames |-> FALSE]
    /\ lastProbe = "none"

Init ==
    /\ running = FALSE
    /\ target = None
    /\ client = None
    /\ control_thread = None
    /\ button_state = ButtonStateDefault
    /\ threads = [t \in Sessions |-> ThreadNone]
    /\ dev = [s \in Sessions |-> [st |-> "none", frame |-> NoFrame]]
    /\ callerPc = "idle"
    /\ handle = None
    /\ nInit = 0
    /\ lastSet = ButtonStateDefault
    /\ lastCall = "other"
    /\ lastPush = "none"
    /\ everActive = FALSE
    /\ shutdownTrace = <<>>
    /\ pressLog = LogOff
    /\ InitOther

(***************************************************************************)
(* Helpers.                                                                *)
(***************************************************************************)
\* Drop of an XTarget: XTarget::drop calls unplug and the Client it owns is
\* dropped with it: the device and what it had received are gone
Unplug(d, s) ==
    [d EXCEPT ![s] = [st |-> "unplugged", frame |-> NoFrame]]

\* mutant: the facade is the only owner of the target
DropFacadeRef_sole(d, s, thr) == IF s # None THEN Unplug(d, s) ELSE d

\* the Arc the facade held on session s is dropped (s may be None): the
\* XTarget itself is dropped unless a live control thread still owns a clone
DropFacadeRef(d, s, thr) ==
    IF s # None /\ thr[s].pc \in {"none", "done"} THEN Unplug(d, s) ELSE d

(***************************************************************************)
(* The press log (history).  A press of climb is followed when it finds    *)
(* the store all released and every control thread in step with it: no     *)
(* frame waiting to be pushed, last_state all released.                    *)
(***************************************************************************)
Quiescent ==
    \A t \in Sessions :
      threads[t].pc # "push" /\ threads[t].last_state = ButtonStateDefault

CountUp(n) == IF n < MaxLog THEN n + 1 ELSE MaxLog

\* the log after set_button(button, pressed)
LogCall(button, pressed) ==
    IF pressLog.mode = "off" \/ button \notin ButtonNames THEN pressLog
    ELSE IF button # "climb" THEN (IF pressed THEN LogIdle ELSE pressLog)
    ELSE IF pressed
         THEN IF button_state = ButtonStateDefault /\ Quiescent THEN LogHeld
              ELSE IF pressLog.mode = "held" THEN pressLog
              ELSE LogIdle
    ELSE IF pressLog.mode = "held"
         THEN [pressLog EXCEPT !.mode = "released"]
         ELSE pressLog

\* the log after a control thread has copied the store
LogSnapshot ==
    IF pressLog.mode = "held"
    THEN [pressLog EXCEPT !.snaps = CountUp(@)]
    ELSE pressLog

\* the log after a control thread has handed gamepad to update
LogPush(gamepad) ==
    IF /\ pressLog.mode \in {"held", "released"}
       /\ (gamepad.buttons \div XButtons_START) % 2 = 1
    THEN [pressLog EXCEPT !.frames = CountUp(@)]
    ELSE pressLog

(***************************************************************************)
(* set_button                                                              *)
(***************************************************************************)
\* mutant: the climb arm assigns the zero field
MatchArm_swapped(button) ==
    IF button = "climb" THEN "zero"
    ELSE IF button \in ButtonNames THEN button ELSE "_"

\* the match of set_button: the field the arm of `button` assigns, "_" for
\* the wildcard arm
MatchArm(button) == IF button \in ButtonNames THEN button ELSE "_"

\* mutant: the wildcard arm assigns a field instead of only warning
WriteArm_wild(state, arm, pressed) ==
    IF arm = "_" THEN [state EXCEPT !["drop_alga"] = pressed]
    ELSE [state EXCEPT ![arm] = pressed]

\* the effect of the selected arm on the locked ButtonState
WriteArm(state, arm, pressed) ==
    IF arm = "_" THEN state ELSE [state EXCEPT ![arm] = pressed]

set_button(button, pressed) ==
    /\ callerPc = "idle"
    /\ button_state' = WriteArm(button_state, MatchArm(button), pressed)
    /\ lastSet' = IF button \in ButtonNames
                  THEN [lastSet EXCEPT ![button] = pressed]
                  ELSE lastSet
    /\ lastCall' = IF button \in ButtonNames
                   THEN "other" ELSE "set_button_unknown"
    /\ pressLog' = LogCall(button, pressed)
    /\ UNCHANGED <<running, target, client, control_thread, threads, dev,
                   callerPc, handle, nInit, lastPush, everActive,
                   shutdownTrace>>
    /\ UNCHANGED lockVars

(***************************************************************************)
(* initialize.  The caller is blocked for the whole call and nothing the   *)
(* call does before it stores self.target is visible to a control thread,  *)
(* so each outcome of the call is one step.                                *)
(***************************************************************************)
\* Client::connect() returns Err: log, return false
InitConnectFail ==
    /\ callerPc = "idle"
    /\ lastCall' = "other"
    /\ UNCHANGED <<facadeVars, threads, dev, callerPc, handle, nInit,
                   lastSet, lastPush, everActive, shutdownTrace>>
    /\ UNCHANGED pressLog
    /\ UNCHANGED lockVars

\* mutant: the flag is stored before plugin is tried
InitPluginFail_flag ==
    /\ callerPc = "idle"
    /\ nInit < MaxInit
    /\ nInit' = nInit + 1
    /\ running' = TRUE
    /\ dev' = [dev EXCEPT ![nInit + 1].st = "discarded"]
    /\ lastCall' = "other"
    /\ UNCHANGED <<target, client, control_thread, button_state, threads,
                   callerPc, handle, lastSet, lastPush, everActive,
                   shutdownTrace>>
    /\ UNCHANGED pressLog
    /\ UNCHANGED lockVars

\* connect Ok, XTarget::new, target.plugin() returns Err: return false; the
\* local target, never plugged in, is dropped
InitPluginFail ==
    /\ callerPc = "idle"
    /\ nInit < MaxInit
    /\ nInit' = nInit + 1
    /\ dev' = [dev EXCEPT ![nInit + 1].st = "discarded"]
    /\ lastCall' = "other"
    /\ UNCHANGED <<facadeVars, threads, callerPc, handle, lastSet,
                   lastPush, everActive, shutdownTrace>>
    /\ UNCHANGED pressLog
    /\ UNCHANGED lockVars

\* mutant: the target is stored and the thread is spawned before the result
\* of wait_ready is looked at
InitWaitReadyFail_spawned ==
    /\ callerPc = "idle"
    /\ nInit < MaxInit
    /\ nInit' = nInit + 1
    /\ target' = nInit + 1
    /\ dev' = [DropFacadeRef(dev, target, threads)
                  EXCEPT ![nInit + 1].st = "plugged"]
    /\ running' = TRUE
    /\ control_thread' = nInit + 1
    /\ threads' = [threads EXCEPT ![nInit + 1] = ThreadSpawned]
    /\ lastCall' = "other"
    /\ UNCHANGED <<client, button_state, callerPc, handle, lastSet,
                   lastPush, everActive, shutdownTrace>>
    /\ UNCHANGED pressLog
    /\ UNCHANGED lockVars

\* connect and plugin Ok, target.wait_ready() returns Err: return false; the
\* local target is dropped, which unplugs it
InitWaitReadyFail ==
    /\ callerPc = "idle"
    /\ nInit < MaxInit
    /\ nInit' = nInit + 1
    /\ dev' = [dev EXCEPT ![nInit + 1].st = "unplugged"]
    /\ lastCall' = "other"
    /\ UNCHANGED <<facadeVars, threads, callerPc, handle, lastSet,
                   lastPush, everActive, shutdownTrace>>
    /\ UNCHANGED pressLog
    /\ UNCHANGED lockVars

\* connect, plugin and wait_ready Ok; the target is stored, the flag is set
\* and the control thread is spawned; return true.  The Arc self.target held
\* before and the JoinHandle self.control_thread held before are dropped by
\* the two assignments (a dropped JoinHandle detaches its thread).
InitOk ==
    /\ callerPc = "idle"
    /\ nInit < MaxInit
    /\ nInit' = nInit + 1
    /\ target' = nInit + 1
    /\ dev' = [DropFacadeRef(dev, target, threads)
                  EXCEPT ![nInit + 1].st = "ready"]
    /\ running' = TRUE
    /\ control_thread' = nInit + 1
    /\ threads' = [threads EXCEPT ![nInit + 1] = ThreadSpawned]
    /\ lastCall' = "other"
    /\ everActive' = TRUE
    /\ shutdownTrace' = <<>>
    /\ UNCHANGED <<client, button_state, callerPc, handle, lastSet,
                   lastPush>>
    /\ UNCHANGED pressLog
    /\ UNCHANGED lockVars

\* a call of initialize by the owner of the controller
initialize ==
    \/ InitConnectFail /\ UNCHANGED ifaceVars
    \/ InitPluginFail /\ UNCHANGED ifaceVars
    \/ InitWaitReadyFail /\ UNCHANGED ifaceVars
    \/ InitOk /\ UNCHANGED ifaceVars

(***************************************************************************)
(* The control thread spawned by initialize.  Thread t owns a clone of the *)
(* Arc of session t.                                                       *)
(***************************************************************************)
\* the joined thread's event e, recorded while the caller waits in join
Observed(t, e) ==
    IF callerPc = "join" /\ handle = t
    THEN Append(shutdownTrace, e) ELSE shutdownTrace

\* mutant: a pending change is flushed before the loop exits
LoopCheck_flush(t) ==
    /\ threads[t].pc = "check"
    /\ IF running \/ StateChanged(button_state, threads[t].last_state)
       THEN /\ threads' = [threads EXCEPT ![t].pc = "snap",
                                          ![t].saw_stop = ~running,
                                          ![t].tick = <<>>]
            /\ dev' = dev
            /\ shutdownTrace' = Observed(t, "tick")
       ELSE /\ threads' = [threads EXCEPT ![t] = ThreadDone]
            /\ dev' = IF target # t THEN Unplug(dev, t) ELSE dev
            /\ shutdownTrace' = shutdownTrace
    /\ UNCHANGED <<facadeVars, callerPc, handle, nInit, lastSet, lastCall,
                   lastPush, everActive>>
    /\ UNCHANGED pressLog
    /\ UNCHANGED otherVars

\* `while running.load(SeqCst)`, reached at the start and after each sleep.
\* On true a tick begins; on false the closure returns and drops its Arc of
\* the target.
LoopCheck(t) ==
    /\ threads[t].pc = "check"
    /\ IF running
       THEN /\ threads' = [threads EXCEPT ![t].pc = "snap", ![t].tick = <<>>]
            /\ dev' = dev
            /\ shutdownTrace' = Observed(t, "tick")
       ELSE /\ threads' = [threads EXCEPT ![t] = ThreadDone]
            /\ dev' = IF target # t THEN Unplug(dev, t) ELSE dev
            /\ shutdownTrace' = shutdownTrace
    /\ UNCHANGED <<facadeVars, callerPc, handle, nInit, lastSet, lastCall,
                   lastPush, everActive>>
    /\ UNCHANGED pressLog
    /\ UNCHANGED otherVars

\* the copy of the nine fields under the button_state lock, and the
\* comparison with last_state
LoopSnapshot(t) ==
    /\ threads[t].pc = "snap"
    /\ threads' =
         [threads EXCEPT
            ![t].current_state = button_state,
            ![t].pc = IF StateChanged(button_state, threads[t].last_state)
                      THEN "push" ELSE "check"]
    /\ pressLog' = LogSnapshot
    /\ UNCHANGED <<facadeVars, dev, callerPc, handle, nInit, historyVars>>
    /\ UNCHANGED otherVars

\* mutant: the frame is built from the store as it is at the push
FrameSource_live(t) == button_state

\* mutant: the frame is built from last_state
FrameSource_stale(t) == threads[t].last_state

\* the state the frame is translated from
FrameSource(t) == threads[t].current_state

\* mutant: last_state is recorded only when update succeeded
RecordedState_onok(t, ok) ==
    IF ok THEN threads[t].current_state ELSE threads[t].last_state

\* `last_state = current_state`, whatever update returned
RecordedState(t, ok) == threads[t].current_state

\* mutant: an Err of update ends the loop
LoopPush_fatal(t) ==
    /\ threads[t].pc = "push"
    /\ \E ok \in BOOLEAN :
         LET gamepad == XGamepad(button_value(FrameSource(t)))
         IN  /\ dev' = IF ok \/ target = t
                       THEN [dev EXCEPT ![t].frame = gamepad]
                       ELSE Unplug(dev, t)
             /\ lastPush' = IF ok THEN "Ok" ELSE "Err"
             /\ pressLog' = LogPush(gamepad)
             /\ threads' =
                  IF ok
                  THEN [threads EXCEPT
                          ![t].tick = Append(@, gamepad),
                          ![t].last_state = RecordedState(t, ok),
                          ![t].pc = "check"]
                  ELSE [threads EXCEPT ![t] = ThreadDone]
    /\ shutdownTrace' = Observed(t, "push")
    /\ UNCHANGED <<facadeVars, callerPc, handle, nInit, lastSet, lastCall,
                   everActive>>
    /\ UNCHANGED otherVars

\* the changed branch: translate, t.update(&gamepad) under the target lock
\* (Ok or Err, an Err is only logged), last_state = current_state, sleep
LoopPush(t) ==
    /\ threads[t].pc = "push"
    /\ \E ok \in BOOLEAN :
         LET gamepad == XGamepad(button_value(FrameSource(t)))
         IN  /\ dev' = [dev EXCEPT ![t].frame = gamepad]
             /\ lastPush' = IF ok THEN "Ok" ELSE "Err"
             /\ pressLog' = LogPush(gamepad)
             /\ threads' =
                  [threads EXCEPT
                     ![t].tick = Append(@, gamepad),
                     ![t].last_state = RecordedState(t, ok),
                     ![t].pc = "check"]
    /\ shutdownTrace' = Observed(t, "push")
    /\ UNCHANGED <<facadeVars, callerPc, handle, nInit, lastSet, lastCall,
                   everActive>>
    /\ UNCHANGED otherVars

LoopStep(t) == LoopCheck(t) \/ LoopSnapshot(t) \/ LoopPush(t)

(***************************************************************************)
(* shutdown                                                                *)
(***************************************************************************)
\* mutant: false is never stored into the flag
shutdown_nostore ==
    /\ callerPc = "idle"
    /\ lastCall' = "shutdown"
    /\ IF running
       THEN /\ handle' = control_thread
            /\ control_thread' = None
            /\ callerPc' = "join"
            /\ shutdownTrace' = <<"flag_false">>
       ELSE UNCHANGED <<handle, control_thread, callerPc, shutdownTrace>>
    /\ UNCHANGED <<running, target, client, button_state, threads, dev,
                   nInit, lastSet, lastPush, everActive>>
    /\ UNCHANGED pressLog
    /\ UNCHANGED otherVars

\* entry of shutdown: if the flag is set, store false, take the handle and
\* block in join; otherwise return at once
shutdown ==
    /\ callerPc = "idle"
    /\ lastCall' = "shutdown"
    /\ IF running
       THEN /\ running' = FALSE
            /\ handle' = control_thread
            /\ control_thread' = None
            /\ callerPc' = "join"
            /\ shutdownTrace' = <<"flag_false">>
       ELSE UNCHANGED <<running, handle, control_thread, callerPc,
                        shutdownTrace>>
    /\ UNCHANGED <<target, client, button_state, threads, dev, nInit,
                   lastSet, lastPush, everActive>>
    /\ UNCHANGED pressLog
    /\ UNCHANGED otherVars

\* the events of the rest of shutdown, in the order of its statements
ClearEvents(tgt, d) ==
    <<"joined">>
      \o (IF tgt # None /\ d[tgt].st = "unplugged"
          THEN <<"unplugged">> ELSE <<>>)
      \o <<"cleared">>

\* mutant: the handle is dropped instead of joined
ShutdownJoin_nowait ==
    /\ callerPc = "join"
    /\ handle' = None
    /\ dev' = DropFacadeRef(dev, target, threads)
    /\ target' = None
    /\ client' = None
    /\ callerPc' = "idle"
    /\ shutdownTrace' = shutdownTrace \o ClearEvents(target, dev')
    /\ UNCHANGED <<running, control_thread, button_state, threads, nInit,
                   lastSet, lastCall, lastPush, everActive>>
    /\ UNCHANGED pressLog
    /\ UNCHANGED otherVars

\* handle.join() returns once the control thread has finished; then
\* self.target = None (the old value is dropped, then None is written) and
\* self.client = None
ShutdownJoin ==
    /\ callerPc = "join"
    /\ handle = None \/ threads[handle].pc = "done"
    /\ handle' = None
    /\ dev' = DropFacadeRef(dev, target, threads)
    /\ target' = None
    /\ client' = None
    /\ callerPc' = "idle"
    /\ shutdownTrace' = shutdownTrace \o ClearEvents(target, dev')
    /\ UNCHANGED <<running, control_thread, button_state, threads, nInit,
                   lastSet, lastCall, lastPush, everActive>>
    /\ UNCHANGED pressLog
    /\ UNCHANGED otherVars

(***************************************************************************)
(* impl Drop for VirtualController: the facade object is destroyed.  drop  *)
(* calls self.shutdown(); when it returns the fields are dropped and no    *)
(* method can be called again.                                             *)
(***************************************************************************)
\* entry of drop: shutdown finds the flag set, stores false, takes the handle
\* and blocks in join; or finds it clear and returns, and the fields go
drop ==
    /\ callerPc = "idle"
    /\ lastCall' = "shutdown"
    /\ IF running
       THEN /\ running' = FALSE
            /\ handle' = control_thread
            /\ control_thread' = None
            /\ callerPc' = "drop_join"
            /\ shutdownTrace' = <<"flag_false">>
            /\ UNCHANGED <<target, dev>>
       ELSE /\ callerPc' = "dropped"
            /\ dev' = DropFacadeRef(dev, target, threads)
            /\ target' = None
            /\ control_thread' = None
            /\ UNCHANGED <<running, handle, shutdownTrace>>
    /\ UNCHANGED <<client, button_state, threads, nInit, lastSet, lastPush,
                   everActive>>
    /\ UNCHANGED pressLog
    /\ UNCHANGED otherVars

\* the join of the shutdown drop called returns, the handles are cleared,
\* shutdown and drop return
DropJoin ==
    /\ callerPc = "drop_join"
    /\ handle = None \/ threads[handle].pc = "done"
    /\ handle' = None
    /\ dev' = DropFacadeRef(dev, target, threads)
    /\ target' = None
    /\ client' = None
    /\ callerPc' = "dropped"
    /\ UNCHANGED <<running, control_thread, button_state, threads, nInit,
                   lastSet, lastCall, lastPush, everActive, shutdownTrace>>
    /\ UNCHANGED pressLog
    /\ UNCHANGED otherVars

(***************************************************************************)
(* set_button and the tick of the control thread, lock by lock.  The steps *)
(* above take a lock, use it and release it within one step; here taking   *)
(* the lock and releasing it are steps of their own, and a flow that finds *)
(* a Mutex held waits.                                                     *)
(***************************************************************************)
\* set_button: self.button_state.lock() returns the guard
SetButtonLock(button, pressed) ==
    /\ callerPc = "idle"
    /\ storeLock = None
    /\ storeLock' = Caller
    /\ callerPc' = "set_button"
    /\ call' = [button |-> button, pressed |-> pressed]
    /\ UNCHANGED <<facadeVars, threads, dev, handle, nInit, historyVars,
                   pressLog, devLock, ifaceVars>>

\* set_button: the match under the lock; the guard is dropped at the end of
\* the if let, and the call returns
SetButtonUnlock ==
    /\ callerPc = "set_button"
    /\ storeLock = Caller
    /\ button_state'
         = WriteArm(button_state, MatchArm(call.button), call.pressed)
    /\ lastSet' = IF call.button \in ButtonNames
                  THEN [lastSet EXCEPT ![call.button] = call.pressed]
                  ELSE lastSet
    /\ lastCall' = IF call.button \in ButtonNames
                   THEN "other" ELSE "set_button_unknown"
    /\ pressLog' = LogCall(call.button, call.pressed)
    /\ storeLock' = None
    /\ callerPc' = "idle"
    /\ call' = NoCall
    /\ UNCHANGED <<running, target, client, control_thread, threads, dev,
                   handle, nInit, lastPush, everActive, shutdownTrace,
                   devLock, ifaceVars>>

\* control thread: button_state.lock().unwrap() returns the guard
SnapshotLock(t) ==
    /\ threads[t].pc = "snap"
    /\ storeLock = None
    /\ storeLock' = t
    /\ threads' = [threads EXCEPT ![t].pc = "snap_locked"]
    /\ UNCHANGED <<facadeVars, dev, callerPc, handle, nInit, historyVars,
                   pressLog, devLock, call, ifaceVars>>

\* mutant: the guard is bound outside the block and lives to the end of the
\* iteration
StoreLockAfterCopy_kept(t, changed) == IF changed THEN t ELSE None

\* the holder of the store lock after the block that copies the nine
\* fields: the guard is a local of the block and is dropped at its end
StoreLockAfterCopy(t, changed) == None

\* control thread: the copy under the lock, the end of the block, and the
\* comparison with last_state
SnapshotUnlock(t) ==
    /\ threads[t].pc = "snap_locked"
    /\ storeLock = t
    /\ LET changed == StateChanged(button_state, threads[t].last_state)
       IN  /\ threads' =
                [threads EXCEPT
                   ![t].current_state = button_state,
                   ![t].pc = IF changed THEN "push" ELSE "check"]
           /\ storeLock' = StoreLockAfterCopy(t, changed)
    /\ pressLog' = LogSnapshot
    /\ UNCHANGED <<facadeVars, dev, callerPc, handle, nInit, historyVars,
                   devLock, call, ifaceVars>>

\* control thread: target.lock() returns the guard
PushLock(t) ==
    /\ threads[t].pc = "push"
    /\ ~devLock[t]
    /\ devLock' = [devLock EXCEPT ![t] = TRUE]
    /\ threads' = [threads EXCEPT ![t].pc = "push_locked"]
    /\ UNCHANGED <<facadeVars, dev, callerPc, handle, nInit, historyVars,
                   pressLog, storeLock, call, ifaceVars>>

\* control thread: t.update(&gamepad) under the target lock, the guard is
\* dropped at the end of the if let, last_state = current_state (the
\* histories of the pushes are not kept here)
PushUnlock(t) ==
    /\ threads[t].pc = "push_locked"
    /\ devLock[t]
    /\ \E ok \in BOOLEAN :
         LET gamepad == XGamepad(button_value(FrameSource(t)))
         IN  /\ dev' = [dev EXCEPT ![t].frame = gamepad]
             /\ threads' =
                  [threads EXCEPT
                     ![t].last_state = RecordedState(t, ok),
                     ![t].pc = "check"]
    /\ devLock' = [devLock EXCEPT ![t] = FALSE]
    /\ UNCHANGED <<facadeVars, callerPc, handle, nInit, historyVars,
                   pressLog, storeLock, call, ifaceVars>>

LockLoopStep(t) ==
    \/ LoopCheck(t)
    \/ SnapshotLock(t)
    \/ SnapshotUnlock(t)
    \/ PushLock(t)
    \/ PushUnlock(t)

(***************************************************************************)
(* FRCInterfaceBase (lib.rs), the node that owns the VirtualController,    *)
(* from init up to exit_tree: ready, the probe of process, the force       *)
(* toggle and the two button signal handlers.  The handlers run on the     *)
(* thread that calls the controller.                                       *)
(***************************************************************************)
controllerVars ==
    <<facadeVars, threads, dev, callerPc, handle, nInit, historyVars,
      pressLog, lockVars>>

\* mutant: the test of force_connected is missing
PingConnected_noforce(force, conn, tcp) ==
    IF tcp THEN (IF ~conn THEN TRUE ELSE conn)
    ELSE (IF conn THEN FALSE ELSE conn)

\* ping_tcp_server: self.connected when it returns; tcp is TRUE when
\* TcpStream::connect_timeout returns Ok
PingConnected(force, conn, tcp) ==
    IF force THEN TRUE
    ELSE IF tcp THEN (IF ~conn THEN TRUE ELSE conn)
    ELSE (IF conn THEN FALSE ELSE conn)

\* ping_tcp_server: what its TCP connect returned, "skipped" when it
\* returned before the connect
ProbeResult(force, tcp) ==
    IF force THEN "skipped" ELSE IF tcp THEN "Ok" ELSE "Err"

ping_tcp_server(force, tcp) ==
    /\ connected' = PingConnected(force, connected, tcp)
    /\ lastProbe' = ProbeResult(force, tcp)

\* ready: a VirtualController is created and initialized and kept if
\* initialize returned true (otherwise it is dropped at the end of ready,
\* with its flag clear); then the first probe
ready ==
    /\ ifacePc = "new"
    /\ ifacePc' = "in_tree"
    /\ \/ InitOk /\ virtual_controller' = TRUE
       \/ /\ InitConnectFail \/ InitPluginFail \/ InitWaitReadyFail
          /\ virtual_controller' = FALSE
    /\ \E tcp \in BOOLEAN : ping_tcp_server(force_connected, tcp)
    /\ UNCHANGED <<force_connected, uiDown, forwarded>>

\* process, when ping_interval has elapsed
process ==
    /\ ifacePc = "in_tree"
    /\ \E tcp \in BOOLEAN : ping_tcp_server(force_connected, tcp)
    /\ UNCHANGED <<force_connected, virtual_controller, ifacePc, uiDown,
                   forwarded, controllerVars>>

toggle_force_connected ==
    /\ ifacePc = "in_tree"
    /\ force_connected' = ~force_connected
    /\ IF ~force_connected
       THEN connected' = TRUE /\ lastProbe' = lastProbe
       ELSE \E tcp \in BOOLEAN : ping_tcp_server(FALSE, tcp)
    /\ UNCHANGED <<virtual_controller, ifacePc, uiDown, forwarded,
                   controllerVars>>

\* the button_down signal of the UI button bound to `button`
on_button_pressed(button) ==
    /\ ifacePc = "in_tree"
    /\ ~uiDown[button]
    /\ uiDown' = [uiDown EXCEPT ![button] = TRUE]
    /\ IF ~connected
       THEN /\ forwarded' = [forwarded EXCEPT ![button] = FALSE]
            /\ UNCHANGED controllerVars
       ELSE IF virtual_controller
            THEN /\ set_button(button, TRUE)
                 /\ forwarded' = [forwarded EXCEPT ![button] = TRUE]
            ELSE /\ forwarded' = [forwarded EXCEPT ![button] = FALSE]
                 /\ UNCHANGED controllerVars
    /\ UNCHANGED <<connected, force_connected, virtual_controller, ifacePc,
                   lastProbe>>

\* the button_up signal of the UI button bound to `button`
on_button_released(button) ==
    /\ ifacePc = "in_tree"
    /\ uiDown[button]
    /\ uiDown' = [uiDown EXCEPT ![button] = FALSE]
    /\ IF ~connected
       THEN UNCHANGED controllerVars
       ELSE IF virtual_controller
            THEN set_button(button, FALSE)
            ELSE UNCHANGED controllerVars
    /\ UNCHANGED <<connected, force_connected, virtual_controller, ifacePc,
                   forwarded, lastProbe>>

(***************************************************************************)
(* Specifications.                                                         *)
(***************************************************************************)
Next ==
    \/ \E b \in DrivenNames \cup UnknownNames, p \in BOOLEAN :
         set_button(b, p) /\ UNCHANGED ifaceVars
    \/ initialize
    \/ shutdown
    \/ ShutdownJoin
    \/ \E t \in Sessions : LoopStep(t)

Spec == Init /\ [][Next]_vars

\* the control threads are scheduled and a join whose thread has finished
\* returns
FairSpec ==
    /\ Spec
    /\ \A t \in Sessions : WF_vars(LoopStep(t))
    /\ WF_vars(ShutdownJoin)

\* the facade may also be destroyed
NextDrop ==
    \/ Next
    \/ drop
    \/ DropJoin

DropSpec == Init /\ [][NextDrop]_vars

\* a facade on which set_button has been called before any initialize: the
\* store holds any subset of the nine names pressed
InitPressed ==
    /\ running = FALSE
    /\ target = None
    /\ client = None
    /\ control_thread = None
    /\ button_state \in [ButtonNames -> BOOLEAN]
    /\ threads = [t \in Sessions |-> ThreadNone]
    /\ dev = [s \in Sessions |-> [st |-> "none", frame |-> NoFrame]]
    /\ callerPc = "idle"
    /\ handle = None
    /\ nInit = 0
    /\ lastSet = button_state
    /\ lastCall = "other"
    /\ lastPush = "none"
    /\ everActive = FALSE
    /\ shutdownTrace = <<>>
    /\ pressLog = LogOff
    /\ InitOther

\* initialize succeeds and the control threads tick on that store
TranslateNext ==
    \/ InitOk /\ UNCHANGED ifaceVars
    \/ \E t \in Sessions : LoopStep(t)

TranslateSpec == InitPressed /\ [][TranslateNext]_vars

\* the same facade with the press log kept
InitCoalesce ==
    /\ running = FALSE
    /\ target = None
    /\ client = None
    /\ control_thread = None
    /\ button_state = ButtonStateDefault
    /\ threads = [t \in Sessions |-> ThreadNone]
    /\ dev = [s \in Sessions |-> [st |-> "none", frame |-> NoFrame]]
    /\ callerPc = "idle"
    /\ handle = None
    /\ nInit = 0
    /\ lastSet = ButtonStateDefault
    /\ lastCall = "other"
    /\ lastPush = "none"
    /\ everActive = FALSE
    /\ shutdownTrace = <<>>
    /\ pressLog = LogIdle
    /\ InitOther

CoalesceSpec == InitCoalesce /\ [][Next]_vars

\* the names passed to set_button where the locks are followed: which
\* field a call writes makes no difference to the locks it takes
LockNames == {DriveOrder[1]} \cup UnknownNames

\* the calls of the owner and the control threads, lock by lock
LockNext ==
    \/ \E b \in LockNames, p \in BOOLEAN : SetButtonLock(b, p)
    \/ SetButtonUnlock
    \/ initialize
    \/ shutdown
    \/ ShutdownJoin
    \/ \E t \in Sessions : LockLoopStep(t)

LockSpec == Init /\ [][LockNext]_vars

\* the node in the scene tree: its handlers and the control thread of its
\* controller
IfaceNext ==
    \/ ready
    \/ process
    \/ toggle_force_connected
    \/ \E b \in DrivenNames : on_button_pressed(b)
    \/ \E b \in DrivenNames : on_button_released(b)
    \/ \E t \in Sessions : LoopStep(t)

IfaceSpec == Init /\ [][IfaceNext]_vars

TypeOK ==
    /\ running \in BOOLEAN
    /\ target \in Sessions \cup {None}
    /\ client = None
    /\ control_thread \in Sessions \cup {None}
    /\ button_state \in [ButtonNames -> BOOLEAN]
    /\ callerPc \in {"idle", "join", "drop_join", "dropped", "set_button"}
    /\ pressLog \in [mode : {"off", "idle", "held", "released"},
                     snaps : 0..MaxLog, frames : 0..MaxLog]
    /\ storeLock \in {None, Caller} \cup Sessions
    /\ devLock \in [Sessions -> BOOLEAN]
    /\ connected \in BOOLEAN
    /\ force_connected \in BOOLEAN
    /\ virtual_controller \in BOOLEAN
    /\ ifacePc \in {"new", "in_tree"}
    /\ uiDown \in [DrivenNames -> BOOLEAN]
    /\ forwarded \in [DrivenNames -> BOOLEAN]
    /\ lastProbe \in {"none", "Ok", "Err", "skipped"}
    /\ \A t \in Sessions :
         /\ threads[t].pc \in {"none", "check", "snap", "snap_locked", "push",
                               "push_locked", "done"}
         /\ dev[t].st \in {"none", "ready", "unplugged", "discarded"}

(***************************************************************************)
(* Properties.                                                             *)
(***************************************************************************)
\* the frame the control thread t computes from the snapshot it holds
Frame(state) == XGamepad(button_value(state))

\* thread t takes the snapshot of a tick in this step
TakesSnapshot(t) == threads[t].pc = "snap" /\ threads'[t].pc # "snap"

\* the device of thread t is handed a frame in this step
ReceivesPush(t) ==
    \/ dev'[t].frame # dev[t].frame /\ dev'[t].st = dev[t].st
    \/ Len(threads'[t].tick) > Len(threads[t].tick)

C2_UnknownIgnored ==
    [][\A b \in UnknownNames, p \in BOOLEAN :
         set_button(b, p) =>
           /\ button_state' = button_state
           /\ callerPc' = "idle"
           /\ dev' = dev
           /\ threads' = threads
           /\ lastPush' = lastPush]_vars

\* C2 witness: an unknown name was passed while a field was pressed and a
\* control thread was running
C2_Witness ==
    /\ lastCall = "set_button_unknown"
    /\ button_state["climb"]
    /\ running
    /\ \E t \in Sessions : Alive(t)

\* C3: when the frame a control thread computes at a tick equals the frame
\* it computed at the tick before (all released, at its first tick), the
\* tick ends without a push, whatever the last update returned; and a
\* device is handed a frame only by its thread in the changed branch.
\* (current_state still holds the snapshot of the tick before when the
\* snapshot of a tick is taken.)
C3_NoRedundantPush ==
    [][\A t \in Sessions :
         /\ (TakesSnapshot(t)
               /\ Frame(threads'[t].current_state)
                    = Frame(threads[t].current_state))
              => /\ threads'[t].pc = "check"
                 /\ threads'[t].tick = <<>>
                 /\ dev' = dev
         /\ ReceivesPush(t) => threads[t].pc = "push"]_vars

\* C3 witness: a tick that ended without a push, after an update that
\* returned Err, with a frame other than all released
C3_Witness ==
    /\ threads[1].pc = "check"
    /\ threads[1].tick = <<>>
    /\ threads[1].current_state["climb"]
    /\ threads[1].last_state = threads[1].current_state
    /\ threads[2].pc = "none"
    /\ lastPush = "Err"

\* C4: at a tick whose snapshot differs from last_state (all released at
\* first) the thread goes to the changed branch with that snapshot; the
\* changed branch hands the device exactly one frame, whose buttons are the
\* translation of the snapshot and whose other fields are neutral, and
\* records the snapshot as last_state.
C4_PushOnChange ==
    [][\A t \in Sessions :
         /\ TakesSnapshot(t) =>
              /\ threads'[t].current_state = button_state
              /\ threads'[t].last_state = threads[t].last_state
              /\ (threads'[t].current_state # threads[t].last_state)
                   <=> (threads'[t].pc = "push")
         /\ (threads[t].pc = "push" /\ threads'[t].pc # "push") =>
              /\ threads'[t].tick
                   = <<XGamepad(button_value(threads[t].current_state))>>
              /\ dev'[t].frame = threads'[t].tick[1]
              /\ threads'[t].last_state = threads[t].current_state
              /\ threads'[t].pc = "check"]_vars

\* C4 witness: a tick ended with one frame pushed that has the START bit
C4_Witness ==
    \E t \in Sessions :
      /\ threads[t].pc = "check"
      /\ Len(threads[t].tick) = 1
      /\ threads[t].tick[1].buttons = XButtons_START
      /\ dev[t].frame = threads[t].tick[1]
      /\ threads[t].last_state["climb"]

\* C5: a control thread that has read the running flag as false takes no
\* further snapshot and makes no further push: it has returned.
C5_NoPushAfterStop ==
    [][\A t \in Sessions :
         threads[t].saw_stop =>
           /\ threads[t].pc = "done"
           /\ threads'[t] = threads[t]
           /\ dev'[t].frame = dev[t].frame \/ dev'[t].st = "unplugged"]_vars

\* C5 witness: the thread has returned while the store differs from the
\* state it pushed last
C5_Witness ==
    \E t \in Sessions :
      /\ threads[t].pc = "done"
      /\ threads[t].saw_stop
      /\ dev[t].st = "ready"
      /\ dev[t].frame # NoFrame
      /\ dev[t].frame # Frame(button_state)

\* the events of kind e in the trace of the shutdown
Count(trace, e) == Cardinality({i \in 1..Len(trace) : trace[i] = e})

\* steps a control thread with this record is away from having returned
\* once the flag is false: check -> done, push -> check, snap -> push/check
Rank(thread) ==
    IF thread.pc = "done" THEN 0
    ELSE IF thread.pc = "check" THEN 1
    ELSE IF thread.pc = "push" THEN 2
    ELSE 3

\* C6: once shutdown has stored false, no control thread begins a tick
\* until shutdown returns, and the joined thread makes at most one more
\* push (that of the tick in progress); while the caller waits in join that
\* thread can always take a step, each of its steps brings it nearer to
\* its return, and once it has returned the join can return and returns to
\* an idle caller; the join returns only after the thread has.  (With the
\* thread scheduled and update returning this bounds the shutdown by the
\* rest of one tick.)
C6_BoundedShutdown ==
    /\ [](/\ Count(shutdownTrace, "tick") = 0
          /\ Count(shutdownTrace, "push") <= 1
          /\ callerPc = "join" =>
               /\ ~running
               /\ handle # None
               /\ IF threads[handle].pc = "done"
                  THEN ENABLED ShutdownJoin
                  ELSE ENABLED LoopStep(handle))
    /\ [][callerPc = "join" =>
             \A t \in Sessions :
               threads[t].pc = "check"
                 => threads'[t].pc \in {"check", "done"}]_vars
    /\ [][(callerPc = "join" /\ callerPc' = "join"
             /\ threads'[handle] # threads[handle])
            => Rank(threads'[handle]) < Rank(threads[handle])]_vars
    /\ [][(callerPc = "join" /\ callerPc' # "join")
            => threads[handle].pc = "done" /\ callerPc' = "idle"]_vars

\* C6, as a liveness property of FairSpec: a shutdown that waits in join
\* returns
C6_JoinReturns == (callerPc = "join") ~> (callerPc = "idle")

\* C6 witness: the tick in progress made its push after the flag was
\* cleared, and the join has returned
C6_Witness ==
    /\ callerPc = "idle"
    /\ Count(shutdownTrace, "push") = 1
    /\ Count(shutdownTrace, "joined") = 1

\* what C7 says a shutdown leaves behind
ShutdownEndState ==
    /\ ~running
    /\ \A t \in Sessions : ~Alive(t)
    /\ control_thread = None
    /\ target = None
    /\ client = None
    /\ \A s \in Sessions : dev[s].st \in {"none", "discarded", "unplugged"}

\* C7: from any reachable state, when shutdown has returned the flag is
\* false, no control thread is alive, the handles are cleared and no
\* device is registered; a second shutdown right after it changes nothing,
\* and no shutdown changes the store.
C7_ShutdownIdempotent ==
    /\ []((lastCall = "shutdown" /\ callerPc = "idle") => ShutdownEndState)
    /\ [][(lastCall = "shutdown" /\ callerPc = "idle" /\ shutdown)
             => UNCHANGED vars]_vars
    /\ [][(shutdown \/ ShutdownJoin) => button_state' = button_state]_vars

\* C8: shutdown on a facade on which no initialize has returned true
\* changes no field, joins nothing and touches no device.
C8_ShutdownNoop ==
    [][(~everActive /\ shutdown)
         => UNCHANGED <<facadeVars, threads, dev, callerPc, handle, nInit,
                        lastPush, shutdownTrace>>]_vars

\* C8 witness: shutdown was called after initialize had failed at plugin
C8_Witness ==
    /\ ~everActive
    /\ lastCall = "shutdown"
    /\ callerPc = "idle"
    /\ \E s \in Sessions : dev[s].st = "discarded"

\* C9: as long as every initialize call has returned false (everActive is
\* set by the one path that returns true), the flag is false, no control
\* thread exists, the facade holds no device handle, no device of a failed
\* call stays registered, set_button still updates the store, and no frame
\* has been handed to a device.
C9_FailedInitialize ==
    ~everActive =>
      /\ ~running
      /\ control_thread = None
      /\ target = None
      /\ client = None
      /\ \A t \in Sessions :
           /\ threads[t].pc = "none"
           /\ dev[t].st \in {"none", "discarded", "unplugged"}
           /\ dev[t].frame = NoFrame
      /\ lastPush = "none"
      /\ button_state = lastSet

\* C9 witness: initialize has failed at plugin and at wait_ready, and a
\* button was pressed afterwards
C9_Witness ==
    /\ ~everActive
    /\ \E s \in Sessions : dev[s].st = "discarded"
    /\ \E s \in Sessions : dev[s].st = "unplugged"
    /\ button_state["climb"]
    /\ lastCall = "other"

\* the events of shutdown itself
IsShutdownEvent(e) == e \notin {"tick", "push"}
ShutdownOrder == <<"flag_false", "joined", "unplugged", "cleared">>

\* C10: a shutdown that found the flag set stores false, then sees the
\* control thread finished through join, then the device is unplugged, then
\* the device handles are empty; while the caller waits in join the device
\* is still registered, and no device is unplugged while the control thread
\* that pushes to it is alive.
C10_ShutdownOrder ==
    LET own == SelectSeq(shutdownTrace, IsShutdownEvent)
    IN  /\ \E k \in 0..Len(ShutdownOrder) : own = SubSeq(ShutdownOrder, 1, k)
        /\ (callerPc = "idle" /\ own # <<>>) => own = ShutdownOrder
        /\ callerPc = "join" =>
             /\ own = <<"flag_false">>
             /\ ~running
             /\ target # None
             /\ dev[target].st = "ready"
        /\ \A s \in Sessions : dev[s].st # "ready" => ~Alive(s)

\* C10 witness: a shutdown of an active facade has run to its end
C10_Witness ==
    /\ callerPc = "idle"
    /\ SelectSeq(shutdownTrace, IsShutdownEvent) = ShutdownOrder
    /\ target = None
    /\ \E s \in Sessions : dev[s].st = "unplugged" /\ threads[s].pc = "done"

\* C11: in every interleaving a device is handed a frame only while it is
\* ready, that is after the wait_ready of its initialize returned Ok and
\* before its XTarget is dropped (unplugged): a control thread exists only
\* for a ready device, a device that is not ready holds no frame, and the
\* step that hands a frame over starts and ends with the device ready.
C11_PushWhileReady ==
    /\ [](\A t \in Sessions :
            (Alive(t) \/ dev[t].frame # NoFrame) => dev[t].st = "ready")
    /\ [][\A t \in Sessions :
            ReceivesPush(t)
              => dev[t].st = "ready" /\ dev'[t].st = "ready"]_vars

\* C11 witness: the thread of the first session has pushed a frame to its
\* device after the facade dropped its handle of that session for a second
\* one
C11_Witness ==
    /\ target = 2
    /\ threads[1].pc = "check"
    /\ Len(threads[1].tick) = 1
    /\ dev[1].st = "ready"
    /\ dev[1].frame = threads[1].tick[1]
    /\ dev[2].st = "ready"

\* C12: once the drop of the facade has returned, in whatever state the
\* facade was dropped, no control thread is alive and no device the facade
\* registered is still plugged in.
C12_DropReleases ==
    callerPc = "dropped" =>
      /\ \A t \in Sessions : ~Alive(t)
      /\ \A s \in Sessions : dev[s].st # "ready"

\* the number of bits set in a u16
RECURSIVE PopCount(_)
PopCount(mask) ==
    IF mask = 0 THEN 0 ELSE (mask % 2) + PopCount(mask \div 2)

\* the logical buttons pressed in a ButtonState
Pressed(s) == {n \in ButtonNames : s[n]}

\* the bitmask the translation yields with button n alone pressed
BitOf(n) == button_value([ButtonStateDefault EXCEPT ![n] = TRUE])

\* the ButtonState read back from a bitmask, bit by bit
Decode(mask) == [n \in ButtonNames |-> (mask \div BitOf(n)) % 2 = 1]

\* C13: the translation gives each of the nine logical buttons one bit, no
\* two the same; for every subset of pressed buttons in the store the
\* bitmask has as many bits set as buttons are pressed and the subset is
\* read back from it; every frame a control thread pushes of a store set
\* before initialize carries that bitmask, and with coral and intake_alga
\* alone pressed it is the B bit and the LB bit and nothing else.
C13_DistinctBits ==
    /\ \A n \in ButtonNames : PopCount(BitOf(n)) = 1
    /\ \A n, m \in ButtonNames : BitOf(n) = BitOf(m) => n = m
    /\ PopCount(button_value(button_state))
         = Cardinality(Pressed(button_state))
    /\ Decode(button_value(button_state)) = button_state
    /\ \A t \in Sessions :
         dev[t].frame # NoFrame =>
           /\ PopCount(dev[t].frame.buttons)
                = Cardinality(Pressed(button_state))
           /\ Decode(dev[t].frame.buttons) = button_state
           /\ Pressed(button_state) = {"coral", "intake_alga"}
                => dev[t].frame = XGamepad(XButtons_B + XButtons_LB)

\* C13 witness: coral and intake_alga were pressed before initialize and
\* the first tick of the control thread has pushed its frame
C13_Witness ==
    /\ Pressed(button_state) = {"coral", "intake_alga"}
    /\ threads[1].pc = "check"
    /\ Len(threads[1].tick) = 1
    /\ threads[1].tick[1].buttons = XButtons_B + XButtons_LB
    /\ dev[1].frame = threads[1].tick[1]

\* control threads that hold a snapshot with climb pressed and have not
\* pushed its frame yet
PendingClimb ==
    Cardinality({t \in Sessions :
                   threads[t].pc = "push" /\ threads[t].current_state["climb"]})

C14_WitnessNone ==
    /\ pressLog = [mode |-> "released", snaps |-> 0, frames |-> 0]
    /\ \E t \in Sessions :
         /\ threads[t].pc = "check"
         /\ Alive(t)
         /\ dev[t].frame = NoFrame
         /\ lastSet["climb"] = FALSE

\* C15: a push whose update returned Err leaves the running flag and the
\* caller as they were and the thread in its loop, back at the loop test
\* with the snapshot recorded as last_state; after a failed push a thread
\* that finds the flag set goes on to its next snapshot, a snapshot equal
\* to last_state ends the tick with no push (the failed frame is not sent
\* again), and a snapshot that differs from last_state is followed by the
\* push of its frame.
C15_PushErrorNotFatal ==
    [][\A t \in Sessions :
         /\ (threads[t].pc = "push" /\ threads'[t].pc # "push"
               /\ lastPush' = "Err")
              => /\ running' = running
                 /\ callerPc' = callerPc
                 /\ threads'[t].pc = "check"
                 /\ threads'[t].last_state = threads[t].current_state
         /\ (lastPush = "Err" /\ threads[t].pc = "check" /\ running
               /\ threads'[t] # threads[t])
              => threads'[t].pc = "snap"
         /\ (lastPush = "Err" /\ TakesSnapshot(t))
              => /\ threads'[t].current_state = button_state
                 /\ threads'[t].pc
                      = (IF button_state # threads[t].last_state
                         THEN "push" ELSE "check")
                 /\ dev' = dev
         /\ (lastPush = "Err" /\ threads[t].pc = "push"
               /\ threads'[t].pc # "push")
              => /\ dev'[t].frame = Frame(threads[t].current_state)
                 /\ threads'[t].tick = <<dev'[t].frame>>]_vars

\* C15 witness: the push of the frame with climb pressed returned Err, the
\* thread went on ticking with the flag set, and its snapshot with climb
\* released is about to be pushed
C15_Witness ==
    /\ running
    /\ threads[2].pc = "none"
    /\ lastPush = "Err"
    /\ dev[1].frame = XGamepad(XButtons_START)
    /\ threads[1].last_state["climb"]
    /\ threads[1].pc = "push"
    /\ threads[1].tick = <<>>
    /\ ~threads[1].current_state["climb"]

\* the facade is active with session t: the flag is set and the facade
\* holds the target and the handle of thread t
Active(t) == running /\ target = t /\ control_thread = t

\* the last frame handed to the device of session t is the translation of
\* the store, or the store is all released and no frame was handed over
Visible(t) ==
    \/ dev[t].frame = Frame(button_state)
    \/ dev[t].frame = NoFrame /\ button_state = ButtonStateDefault

\* C16: with the control threads scheduled fairly, if from some point on
\* the facade stays active with one session and the store is not changed
\* any more, then from some point on the last frame handed to that
\* session's device is the translation of the store (or the store is all
\* released and no frame was ever handed over).
C16_EventualVisibility ==
    \A t \in Sessions :
      \/ []<>(~Active(t))
      \/ []<><<button_state' # button_state>>_vars
      \/ <>[]Visible(t)

\* C16 witness: climb was pressed on an active facade and the frame with
\* the START bit has reached the device of the session the facade holds
C16_Witness ==
    \E t \in Sessions :
      /\ Active(t)
      /\ callerPc = "idle"
      /\ button_state["climb"]
      /\ dev[t].frame = XGamepad(XButtons_START)
      /\ threads[t].pc = "snap"
      /\ threads[t].last_state = button_state

\* C17: whatever sequence of initialize, set_button and shutdown calls is
\* made on the facade, at most one control thread is alive and at most one
\* device the facade registered is plugged in.
C17_SingleSession ==
    /\ Cardinality({t \in Sessions : Alive(t)}) <= 1
    /\ Cardinality({s \in Sessions : dev[s].st = "ready"}) <= 1

\* C18: a control thread holds the store lock only while it copies the
\* store and the device lock only while update runs, never both; the
\* caller holds the store lock only inside set_button and never a device
\* lock; whoever holds a lock can release it without waiting for anything,
\* so no flow waits for ever: a set_button call waits at most for a copy of
\* the store, never for a push, a control thread waits at most for a
\* set_button or a copy, and a join is reached by a thread that can always
\* go on.
C18_LockDiscipline ==
    /\ \A t \in Sessions :
         /\ storeLock = t
              => threads[t].pc = "snap_locked" /\ ENABLED SnapshotUnlock(t)
         /\ devLock[t]
              => /\ threads[t].pc = "push_locked"
                 /\ storeLock # t
                 /\ ENABLED PushUnlock(t)
         /\ threads[t].pc = "push_locked" => devLock[t] /\ storeLock # t
         /\ Alive(t) =>
              \/ ENABLED LockLoopStep(t)
              \/ threads[t].pc = "snap" /\ storeLock \notin {None, t}
    /\ storeLock = Caller <=> callerPc = "set_button"
    /\ callerPc = "set_button" => ENABLED SetButtonUnlock
    /\ (callerPc = "idle" /\ storeLock = None)
         => \A b \in LockNames, p \in BOOLEAN : ENABLED SetButtonLock(b, p)
    /\ callerPc = "join" =>
         /\ storeLock # Caller
         /\ handle # None
         /\ IF threads[handle].pc = "done"
            THEN ENABLED ShutdownJoin ELSE Alive(handle)

\* C18 witness: update is running under the device lock while the caller
\* is inside set_button with the store lock
C18_Witness ==
    /\ threads[1].pc = "push_locked"
    /\ devLock[1]
    /\ storeLock = Caller
    /\ callerPc = "set_button"
    /\ call = [button |-> "climb", pressed |-> FALSE]

\* C19: in every state reached through ready, the probes and the force
\* toggle, connected is true whenever force_connected is true; a probe run
\* while force_connected is true returns before the TCP connect and leaves
\* connected true; and the toggle that turns the override off makes the TCP
\* connect and leaves connected as that connect found it.
C19_ForceOverride ==
    /\ [](force_connected => connected)
    /\ [][(force_connected /\ force_connected'
             /\ lastProbe' # lastProbe)
            => lastProbe' = "skipped" /\ connected']_vars
    /\ [][(force_connected /\ process)
            => lastProbe' = "skipped" /\ connected']_vars
    /\ [][(force_connected /\ ~force_connected')
            => /\ lastProbe' \in {"Ok", "Err"}
               /\ connected' = (lastProbe' = "Ok")]_vars

\* C19 witness: the override was turned on while the TCP connect failed and
\* a probe has run since
C19_Witness ==
    /\ force_connected
    /\ connected
    /\ lastProbe = "skipped"
    /\ ifacePc = "in_tree"

\* C20: for every logical button whose press was passed on to
\* set_button(name, true) and whose UI button has been let go since (its
\* button_up signal has been handled), the store holds released.
C20_NoStuckButton ==
    \A n \in DrivenNames :
      (forwarded[n] /\ ~uiDown[n]) => ~button_state[n]

====
